---- MODULE Spec2Model ----
(***************************************************************************)
(* Procedural dungeon generation of AIDungeonCrawlerConcept:               *)
(*   - dungeon.tsx : createDungeon (room placement, loop augmentation,     *)
(*                   corridor routing)                                     *)
(*   - layout.tsx  : createGraphFromPoints (Bowyer-Watson), primMST        *)
(*                                                                         *)
(* Conventions.  Indices of points, rooms and edges are 0-based as in the  *)
(* source; the TLA+ sequences that hold them are 1-based, so room i of the *)
(* source is rooms[i + 1].  cells[y][x] is indexed as in the source.       *)
(* Math.random() is a nondeterministic choice over the values the draw can *)
(* produce.                                                                *)
(***************************************************************************)
EXTENDS Integers, Sequences, FiniteSets, TLC

VARIABLES
    pc,          \* position in createDungeon / in the function under test
    cells,       \* Cell[][] : cells[y][x] \in {"room","corridor","empty"}
    rooms,       \* Room[]
    attempts,    \* attempts counter of the placement loop
    points,      \* Point[] handed to createGraphFromPoints / primMST
    roomGraph,   \* Graph returned by createGraphFromPoints (edges, triangles)
    mst,         \* edges of the Graph returned by primMST
    adjacency,   \* degree counters of the loop augmentation
    finalEdges,  \* MST edges followed by the accepted extra edges
    augIdx,      \* number of roomGraph.edges the augmentation loop has examined
    carveIdx,    \* number of finalEdges the carving loop has processed
    carved       \* history: one record per processed final edge

vars == <<pc, cells, rooms, attempts, points, roomGraph, mst, adjacency,
          finalEdges, augIdx, carveIdx, carved>>

(***************************************************************************)
(* Program constants (dungeon.tsx).  DUNGEON_SIZE, MAX_ROOM_SIZE,          *)
(* MAX_ROOMS and the attempts per room (the 8 of MAX_ROOMS * 8) are 30, 7, *)
(* 7 and 8 in the source; the model runs createDungeon with smaller values *)
(* of these four parameters.                                               *)
(***************************************************************************)
MIN_ROOM_SIZE == 3
MAX_ROOM_SIZE == 4
DUNGEON_SIZE == 12
MAX_ROOMS == 4
ATTEMPTS_PER_ROOM == 2
ROOM_SEPARATION == 5
ROOM_CORRIDOR_GAP == 2
CORRIDOR_CORRIDOR_GAP == 1
MAX_ALLOWED_CONNECTIONS == 2

Room == "room"
Corridor == "corridor"
Empty == "empty"

Max(a, b) == IF a > b THEN a ELSE b
Min(a, b) == IF a < b THEN a ELSE b
Abs(a) == IF a < 0 THEN -a ELSE a

(***************************************************************************)
(* Grid                                                                    *)
(***************************************************************************)
Rows(c) == Cardinality(DOMAIN c)
Cols(c) == IF 0 \in DOMAIN c THEN Cardinality(DOMAIN c[0]) ELSE 0

createEmptyDungeon(width, height) ==
    [y \in 0..(height - 1) |-> [x \in 0..(width - 1) |-> Empty]]

isAreaEmpty(c, x, y, width, height) ==
    LET maxY == Rows(c)
        maxX == Cols(c)
        startY == Max(0, y)
        startX == Max(0, x)
        endY == Min(maxY, y + height)
        endX == Min(maxX, x + width)
    IN \A j \in startY..(endY - 1) : \A i \in startX..(endX - 1) :
           c[j][i] = Empty

placeRoom(c, room) ==
    [y \in DOMAIN c |-> [x \in DOMAIN c[y] |->
        IF /\ y >= room.y /\ y < room.y + room.height
           /\ x >= room.x /\ x < room.x + room.width
        THEN Room ELSE c[y][x]]]

\* The four Math.random() draws of one placement attempt.
RoomDraws ==
    { d \in [w : MIN_ROOM_SIZE..MAX_ROOM_SIZE, h : MIN_ROOM_SIZE..MAX_ROOM_SIZE,
             x : 0..(DUNGEON_SIZE - 1), y : 0..(DUNGEON_SIZE - 1)] :
        /\ d.x < DUNGEON_SIZE - d.w
        /\ d.y < DUNGEON_SIZE - d.h }

NewRoom(d) ==
    [x |-> d.x, y |-> d.y, width |-> d.w, height |-> d.h,
     center |-> [x |-> d.x + (d.w \div 2), y |-> d.y + (d.h \div 2)]]

\* AttemptAccepted with the emptiness test made on the room's own rectangle,
\* the ROOM_SEPARATION margin left out
AttemptAccepted_NoMargin(c, d) ==
    isAreaEmpty(c, d.x, d.y, d.w, d.h)

\* lines 98-103: the area test on the room expanded by ROOM_SEPARATION
AttemptAccepted(c, d) ==
    isAreaEmpty(c, d.x - ROOM_SEPARATION, d.y - ROOM_SEPARATION,
                d.w + ROOM_SEPARATION * 2, d.h + ROOM_SEPARATION * 2)

\* some draw of the attempt fails the area test
SomeDrawRejected(c) == \E d \in RoomDraws : ~AttemptAccepted(c, d)

\* the loop condition without the attempt budget
PlacementLoopCond_NoBudget == Len(rooms) < MAX_ROOMS

\* line 89: the condition of the placement loop
PlacementLoopCond == Len(rooms) < MAX_ROOMS /\ attempts < MAX_ROOMS * ATTEMPTS_PER_ROOM

(***************************************************************************)
(* Exact arithmetic for circumcircleContains.                              *)
(* The source computes with IEEE doubles; the model computes the same      *)
(* expressions over the rationals.  Products that exceed the 32-bit        *)
(* integers of the checker are held as a pair <<hi, lo>> that stands for   *)
(* hi * 2^30 + lo with 0 <= lo < 2^30.                                     *)
(***************************************************************************)
W15 == 2 ^ 15
W30 == 2 ^ 30

WideNorm(hi, lo) == <<hi + (lo \div W30), lo % W30>>

WideMul(x, y) ==
    LET a == x \div W15
        b == x % W15
        c == y \div W15
        e == y % W15
        m == a * e + b * c
    IN WideNorm(a * c + (m \div W15), (m % W15) * W15 + b * e)

WideAdd(u, v) == WideNorm(u[1] + v[1], u[2] + v[2])

\* x * u for an integer x and a pair u
WideScale(x, u) == WideAdd(<<x * u[1], 0>>, WideMul(x, u[2]))

WideSign(u) == IF u[1] < 0 THEN -1 ELSE IF u[1] = 0 /\ u[2] = 0 THEN 0 ELSE 1

(***************************************************************************)
(* layout.tsx : Delaunay triangulation (Bowyer-Watson)                     *)
(*                                                                         *)
(* The super-triangle has half-integer coordinates (midx = (minX+maxX)/2), *)
(* so the triangulation works on every coordinate multiplied by two:       *)
(* Double(p) is 2p, and the super-triangle below is twice the source's.    *)
(* In doubled units the determinant d is four times the source's, and a    *)
(* squared distance is four times the source's.                            *)
(***************************************************************************)
\* 1 / 1e-8, the tolerance added to r2 in circumcircleContains
INV_TOLERANCE == 100000000

Pt(x, y) == [x |-> x, y |-> y]
Edge(a, b) == [a |-> a, b |-> b]
Tri(a, b, c) == [a |-> a, b |-> b, c |-> c]
Double(p) == Pt(2 * p.x, 2 * p.y)

\* edgeKey: the canonical (min, max) form of the string key "min,max"
edgeKey(a, b) == IF a < b THEN <<a, b>> ELSE <<b, a>>

\* pA, pB, pC, p in doubled units.  With b = pB - pA, c = pC - pA, q = p - pA:
\*   d        = 2 (b.x c.y - b.y c.x), the source's determinant (4 x in doubled
\*              units; |d| < 1e-12 iff d = 0 on integers)
\*   ux       = pA.x + uxR / d,  uy = pA.y + uyR / d   (the circumcenter)
\*   dist2 - r2 = |u - p|^2 - |u - pA|^2 = (|q|^2 d - 2 (q.x uxR + q.y uyR)) / d
\*              = excess / d
\*   dist2 <= r2 + 1e-8 (source units)  iff  excess / d <= 4e-8 (doubled units)
circumcircleContains(pA, pB, pC, p) ==
    LET bx == pB.x - pA.x
        by == pB.y - pA.y
        cx == pC.x - pA.x
        cy == pC.y - pA.y
        qx == p.x - pA.x
        qy == p.y - pA.y
        d == 2 * (bx * cy - by * cx)
        sqb == bx * bx + by * by
        sqc == cx * cx + cy * cy
        sqq == qx * qx + qy * qy
        uxR == WideAdd(WideMul(sqb, cy), WideMul(-sqc, by))
        uyR == WideAdd(WideMul(sqc, bx), WideMul(-sqb, cx))
        excess == WideAdd(WideMul(sqq, d),
                          WideAdd(WideScale(-2 * qx, uxR), WideScale(-2 * qy, uyR)))
        tol == (INV_TOLERANCE \div 4)
        \* excess / d <= 1 / tol  iff  excess <= slack (d > 0), excess >= slack (d < 0)
        slack == IF d > 0 THEN d \div tol ELSE -((-d) \div tol)
        diff == WideSign(WideAdd(excess, WideNorm(0, -slack)))
    IN IF d = 0 THEN FALSE
       ELSE IF d > 0 THEN diff <= 0 ELSE diff >= 0

triEdges(t) == <<Edge(t.a, t.b), Edge(t.b, t.c), Edge(t.c, t.a)>>

RECURSIVE concatEdges(_)
concatEdges(ts) ==
    IF ts = <<>> THEN <<>> ELSE triEdges(Head(ts)) \o concatEdges(Tail(ts))

hasKey(es, k) == \E j \in 1..Len(es) : edgeKey(es[j].a, es[j].b) = k
dropKey(es, k) == SelectSeq(es, LAMBDA f : edgeKey(f.a, f.b) # k)

\* boundaryEdges keeping an edge shared by two bad triangles
RECURSIVE boundaryEdges_NoCancel(_, _)
boundaryEdges_NoCancel(es, acc) ==
    IF es = <<>> THEN acc
    ELSE LET e == Head(es)
             k == edgeKey(e.a, e.b)
         IN boundaryEdges_NoCancel(Tail(es),
                IF hasKey(acc, k) THEN acc ELSE Append(acc, e))

\* edgeMap of the insertion loop: an edge met a second time is deleted
RECURSIVE boundaryEdges(_, _)
boundaryEdges(es, acc) ==
    IF es = <<>> THEN acc
    ELSE LET e == Head(es)
             k == edgeKey(e.a, e.b)
         IN boundaryEdges(Tail(es),
                IF hasKey(acc, k) THEN dropKey(acc, k) ELSE Append(acc, e))

\* uniqueEdges keeping every edge of every triangle
uniqueEdges_NoDedup(es, acc) == acc \o es

\* edgeSet of the result: an edge met a second time is ignored
RECURSIVE uniqueEdges(_, _)
uniqueEdges(es, acc) ==
    IF es = <<>> THEN acc
    ELSE LET e == Head(es)
             k == edgeKey(e.a, e.b)
         IN uniqueEdges(Tail(es), IF hasKey(acc, k) THEN acc ELSE Append(acc, e))

\* pts: the doubled points followed by the super-triangle; 0-based index k
PtAt(pts, k) == pts[k + 1]

isBad(pts, t, i) ==
    circumcircleContains(PtAt(pts, t.a), PtAt(pts, t.b), PtAt(pts, t.c), PtAt(pts, i))

\* one iteration of the insertion loop, for point index i
insertPoint(pts, triangles, i) ==
    LET bad == SelectSeq(triangles, LAMBDA t : isBad(pts, t, i))
        kept == SelectSeq(triangles, LAMBDA t : ~isBad(pts, t, i))
        edgeMap == boundaryEdges(concatEdges(bad), <<>>)
    IN kept \o [j \in 1..Len(edgeMap) |-> Tri(edgeMap[j].a, edgeMap[j].b, i)]

RECURSIVE insertAll(_, _, _, _)
insertAll(pts, n, i, triangles) ==
    IF i >= n THEN triangles
    ELSE insertAll(pts, n, i + 1, insertPoint(pts, triangles, i))

SeqMin(s) == CHOOSE v \in {s[j] : j \in 1..Len(s)} : \A j \in 1..Len(s) : v <= s[j]
SeqMax(s) == CHOOSE v \in {s[j] : j \in 1..Len(s)} : \A j \in 1..Len(s) : v >= s[j]

superTriangle(ps) ==
    LET xs == [j \in 1..Len(ps) |-> ps[j].x]
        ys == [j \in 1..Len(ps) |-> ps[j].y]
        minX == SeqMin(xs)
        maxX == SeqMax(xs)
        minY == SeqMin(ys)
        maxY == SeqMax(ys)
        dmax == Max(maxX - minX, maxY - minY)
        midx2 == minX + maxX
        midy2 == minY + maxY
    IN << Pt(midx2 - 40 * dmax, midy2 - 2 * dmax),
          Pt(midx2, midy2 + 40 * dmax),
          Pt(midx2 + 40 * dmax, midy2 - 2 * dmax) >>

\* Graph: [edges, triangles]; its points are the input points
createGraphFromPoints(ps) ==
    IF Len(ps) = 0 THEN [edges |-> <<>>, triangles |-> <<>>]
    ELSE LET n == Len(ps)
             pts == [j \in 1..n |-> Double(ps[j])] \o superTriangle(ps)
             all == insertAll(pts, n, 0, << Tri(n, n + 1, n + 2) >>)
             triangles == SelectSeq(all, LAMBDA t : t.a < n /\ t.b < n /\ t.c < n)
         IN [edges |-> uniqueEdges(concatEdges(triangles), <<>>),
             triangles |-> triangles]

(***************************************************************************)
(* layout.tsx : primMST                                                    *)
(* dist is Math.sqrt of the squared distance; the comparisons w < bestWeight *)
(* of two such values are the comparisons of the squared distances.        *)
(***************************************************************************)
dist2(ps, a, b) ==
    LET dx == ps[a + 1].x - ps[b + 1].x
        dy == ps[a + 1].y - ps[b + 1].y
    IN dx * dx + dy * dy

NoBest == [found |-> FALSE, edge |-> Edge(0, 0), w |-> 0]

\* scanEdges keeping the first edge that leaves the tree, whatever its weight
RECURSIVE scanEdges_FirstCrossing(_, _, _, _)
scanEdges_FirstCrossing(ps, es, inMST, best) ==
    IF es = <<>> THEN best
    ELSE LET e == Head(es)
             aIn == e.a \in inMST
             bIn == e.b \in inMST
             w == dist2(ps, e.a, e.b)
         IN scanEdges_FirstCrossing(ps, Tail(es), inMST,
                IF ((aIn /\ ~bIn) \/ (~aIn /\ bIn)) /\ ~best.found
                THEN [found |-> TRUE, edge |-> e, w |-> w]
                ELSE best)

\* scanEdges comparing with <= : the last edge of least weight wins
RECURSIVE scanEdges_LastWins(_, _, _, _)
scanEdges_LastWins(ps, es, inMST, best) ==
    IF es = <<>> THEN best
    ELSE LET e == Head(es)
             aIn == e.a \in inMST
             bIn == e.b \in inMST
             w == dist2(ps, e.a, e.b)
         IN scanEdges_LastWins(ps, Tail(es), inMST,
                IF ((aIn /\ ~bIn) \/ (~aIn /\ bIn)) /\ (~best.found \/ w <= best.w)
                THEN [found |-> TRUE, edge |-> e, w |-> w]
                ELSE best)

\* the scan "for (const e of edges)" of one iteration of the while loop
RECURSIVE scanEdges(_, _, _, _)
scanEdges(ps, es, inMST, best) ==
    IF es = <<>> THEN best
    ELSE LET e == Head(es)
             aIn == e.a \in inMST
             bIn == e.b \in inMST
             w == dist2(ps, e.a, e.b)
         IN scanEdges(ps, Tail(es), inMST,
                IF ((aIn /\ ~bIn) \/ (~aIn /\ bIn)) /\ (~best.found \/ w < best.w)
                THEN [found |-> TRUE, edge |-> e, w |-> w]
                ELSE best)

\* primMST without its disconnected-graph fallback
fallbackEdge_None(ps, inMST) == NoBest

\* the disconnected-graph fallback: the loops stop at the first pair (i, j)
\* with i in the tree and j outside it (w < Infinity holds for each)
fallbackEdge(ps, inMST) ==
    LET n == Len(ps)
        pairs == {<<i, j>> \in (0..(n - 1)) \X (0..(n - 1)) : i \in inMST /\ j \notin inMST}
    IN IF pairs = {} THEN NoBest
       ELSE LET first == CHOOSE q \in pairs : \A r \in pairs :
                             q[1] < r[1] \/ (q[1] = r[1] /\ q[2] <= r[2])
            IN [found |-> TRUE, edge |-> Edge(first[1], first[2]),
                w |-> dist2(ps, first[1], first[2])]

RECURSIVE primLoop(_, _, _, _)
primLoop(ps, es, inMST, mstEdges) ==
    IF Len(mstEdges) >= Len(ps) - 1 THEN mstEdges
    ELSE LET scanned == scanEdges(ps, es, inMST, NoBest)
             best == IF scanned.found THEN scanned ELSE fallbackEdge(ps, inMST)
         IN IF ~best.found THEN mstEdges
            ELSE primLoop(ps, es, inMST \cup {best.edge.a, best.edge.b},
                          Append(mstEdges, best.edge))

\* the edges of the returned Graph
primMST(ps, es) ==
    IF Len(ps) = 0 THEN <<>>
    ELSE IF Len(ps) = 1 THEN <<>>
    ELSE primLoop(ps, es, {0}, <<>>)

(***************************************************************************)
(* SpecTri : createGraphFromPoints, then primMST on the graph it returns,  *)
(* as pure functions of a point list drawn from bounded sets:              *)
(*   - up to TRI_MAX_POINTS points with coordinates in 0..TRI_BOX          *)
(*   - three points of a flat box 0..FLAT_X by 0..FLAT_Y                   *)
(***************************************************************************)
TRI_MAX_POINTS == 4
TRI_BOX == 3
FLAT_X == 9
FLAT_Y == 2

SeqsOf(S, n) == [1..n -> S]

TriInputs ==
    (UNION { SeqsOf({Pt(x, y) : x \in 0..TRI_BOX, y \in 0..TRI_BOX}, n) :
               n \in 0..TRI_MAX_POINTS })
    \cup SeqsOf({Pt(x, y) : x \in 0..FLAT_X, y \in 0..FLAT_Y}, 3)

NoGraph == [edges |-> <<>>, triangles |-> <<>>]
NoCells == createEmptyDungeon(0, 0)

InitTri ==
    /\ pc = "tri_input"
    /\ points \in TriInputs
    /\ roomGraph = NoGraph
    /\ mst = <<>>
    /\ cells = NoCells
    /\ rooms = <<>>
    /\ attempts = 0
    /\ adjacency = <<>>
    /\ finalEdges = <<>>
    /\ augIdx = 0
    /\ carveIdx = 0
    /\ carved = <<>>

TriCreateGraph ==
    /\ pc = "tri_input"
    /\ roomGraph' = createGraphFromPoints(points)
    /\ pc' = "tri_graph"
    /\ UNCHANGED <<cells, rooms, attempts, points, mst, adjacency, finalEdges,
                   augIdx, carveIdx, carved>>

TriPrim ==
    /\ pc = "tri_graph"
    /\ mst' = primMST(points, roomGraph.edges)
    /\ pc' = "tri_done"
    /\ UNCHANGED <<cells, rooms, attempts, points, roomGraph, adjacency, finalEdges,
                   augIdx, carveIdx, carved>>

NextTri == TriCreateGraph \/ TriPrim

SpecTri == InitTri /\ [][NextTri]_vars

(***************************************************************************)
(* dungeon.tsx : corridor router (the closures of createDungeon).          *)
(* c is the grid, rs the rooms; cols and rows are the grid's dimensions.   *)
(***************************************************************************)
inGrid(c, x, y) == x >= 0 /\ x < Cols(c) /\ y >= 0 /\ y < Rows(c)

inRoom(r, x, y) == x >= r.x /\ x < r.x + r.width /\ y >= r.y /\ y < r.y + r.height

roomIndexAt(rs, x, y) ==
    LET hits == {i \in 0..(Len(rs) - 1) : inRoom(rs[i + 1], x, y)}
    IN IF hits = {} THEN -1 ELSE CHOOSE i \in hits : \A j \in hits : i <= j

distToRoom(rs, roomIdx, px, py) ==
    LET r == rs[roomIdx + 1]
        rx1 == r.x
        ry1 == r.y
        rx2 == r.x + r.width - 1
        ry2 == r.y + r.height - 1
        dx == IF px < rx1 THEN rx1 - px ELSE IF px > rx2 THEN px - rx2 ELSE 0
        dy == IF py < ry1 THEN ry1 - py ELSE IF py > ry2 THEN py - ry2 ELSE 0
    IN Max(dx, dy)

Sign(v) == IF v = 0 THEN 0 ELSE IF v > 0 THEN 1 ELSE -1

\* the while loop of exitCellFromCenter; <<x, y, TRUE>> when it returns a cell,
\* <<x, y, FALSE>> when it leaves the grid
RECURSIVE exitWalk(_, _, _, _, _, _, _, _)
exitWalk(c, rs, roomIdx, x, y, primary, stepX, stepY) ==
    IF ~inGrid(c, x, y) THEN <<x, y, FALSE>>
    ELSE IF roomIndexAt(rs, x, y) # roomIdx THEN <<x, y, TRUE>>
    ELSE IF primary = "x"
         THEN exitWalk(c, rs, roomIdx, x + stepX, y, primary, stepX, stepY)
         ELSE exitWalk(c, rs, roomIdx, x, y + stepY, primary, stepX, stepY)

\* the walk never moves (and the source's loop never ends) when the target is
\* the room's own center
exitWalkStuck(rs, roomIdx, target) ==
    /\ target.x = rs[roomIdx + 1].center.x
    /\ target.y = rs[roomIdx + 1].center.y

exitFallback(c, rs, roomIdx) ==
    LET r == rs[roomIdx + 1]
        free == {q \in ((r.y - 1)..(r.y + r.height)) \X ((r.x - 1)..(r.x + r.width)) :
                    /\ inGrid(c, q[2], q[1])
                    /\ roomIndexAt(rs, q[2], q[1]) = -1}
    IN IF free = {} THEN Pt(r.center.x, r.center.y)
       ELSE LET q == CHOOSE q \in free : \A o \in free :
                         q[1] < o[1] \/ (q[1] = o[1] /\ q[2] <= o[2])
            IN Pt(q[2], q[1])

\* exitCellFromCenter with the primary axis chosen by > instead of >=
exitCellFromCenter_TieToY(c, rs, roomIdx, target) ==
    LET r == rs[roomIdx + 1]
        cx == r.center.x
        cy == r.center.y
        dx == target.x - cx
        dy == target.y - cy
        primary == IF Abs(dx) > Abs(dy) THEN "x" ELSE "y"
        w == exitWalk(c, rs, roomIdx, cx, cy, primary, Sign(dx), Sign(dy))
    IN IF w[3] THEN Pt(w[1], w[2]) ELSE exitFallback(c, rs, roomIdx)

exitCellFromCenter(c, rs, roomIdx, target) ==
    LET r == rs[roomIdx + 1]
        cx == r.center.x
        cy == r.center.y
        dx == target.x - cx
        dy == target.y - cy
        primary == IF Abs(dx) >= Abs(dy) THEN "x" ELSE "y"
        w == exitWalk(c, rs, roomIdx, cx, cy, primary, Sign(dx), Sign(dy))
    IN IF w[3] THEN Pt(w[1], w[2]) ELSE exitFallback(c, rs, roomIdx)

clamp(v, min, max) == IF v < min THEN min ELSE IF v > max THEN max ELSE v

\* lineCells stopping before the end cell
RECURSIVE lineCells_OpenEnd(_, _, _, _)
lineCells_OpenEnd(x0, y0, x1, y1) ==
    IF x0 = x1 /\ y0 = y1 THEN <<>>
    ELSE << Pt(x0, y0) >> \o lineCells_OpenEnd(x0 + Sign(x1 - x0), y0 + Sign(y1 - y0), x1, y1)

RECURSIVE lineCells(_, _, _, _)
lineCells(x0, y0, x1, y1) ==
    IF x0 = x1 /\ y0 = y1 THEN << Pt(x0, y0) >>
    ELSE << Pt(x0, y0) >> \o lineCells(x0 + Sign(x1 - x0), y0 + Sign(y1 - y0), x1, y1)

RECURSIVE polylineToCells(_)
polylineToCells(pointsArr) ==
    IF Len(pointsArr) < 2 THEN <<>>
    ELSE LET a == pointsArr[1]
             b == pointsArr[2]
         IN (IF a.x = b.x /\ a.y = b.y THEN <<>> ELSE lineCells(a.x, a.y, b.x, b.y))
            \o polylineToCells(Tail(pointsArr))

\* cellTooCloseToRooms with the gap test one cell narrower
cellTooCloseToRooms_NarrowGap(rs, p, srcRoom, dstRoom, start, end) ==
    LET isStart == p.x = start.x /\ p.y = start.y
        isEnd == p.x = end.x /\ p.y = end.y
    IN \E i \in 0..(Len(rs) - 1) :
          /\ distToRoom(rs, i, p.x, p.y) < ROOM_CORRIDOR_GAP - 1
          /\ ~((i = srcRoom /\ isStart) \/ (i = dstRoom /\ isEnd))

cellTooCloseToRooms(rs, p, srcRoom, dstRoom, start, end) ==
    LET isStart == p.x = start.x /\ p.y = start.y
        isEnd == p.x = end.x /\ p.y = end.y
    IN \E i \in 0..(Len(rs) - 1) :
          /\ distToRoom(rs, i, p.x, p.y) < ROOM_CORRIDOR_GAP
          /\ ~((i = srcRoom /\ isStart) \/ (i = dstRoom /\ isEnd))

\* corridorTooCloseToOthers without the early "return false" on a corridor cell
corridorTooCloseToOthers_NoMerge(c, p) ==
    IF ~inGrid(c, p.x, p.y) THEN TRUE
    ELSE \E dy \in -1..1 : \E dx \in -1..1 :
            /\ ~(dx = 0 /\ dy = 0)
            /\ inGrid(c, p.x + dx, p.y + dy)
            /\ c[p.y + dy][p.x + dx] = Corridor
            /\ Max(Abs(dx), Abs(dy)) <= CORRIDOR_CORRIDOR_GAP

corridorTooCloseToOthers(c, p) ==
    IF ~inGrid(c, p.x, p.y) THEN TRUE
    ELSE IF c[p.y][p.x] = Corridor THEN FALSE
    ELSE \E dy \in -1..1 : \E dx \in -1..1 :
            /\ ~(dx = 0 /\ dy = 0)
            /\ inGrid(c, p.x + dx, p.y + dy)
            /\ c[p.y + dy][p.x + dx] = Corridor
            /\ Max(Abs(dx), Abs(dy)) <= CORRIDOR_CORRIDOR_GAP

createsCorridorSquare(c, path) ==
    \E k \in 1..Len(path) : \E oy \in -1..0 : \E ox \in -1..0 :
        LET cell == path[k]
            sx == cell.x + ox
            sy == cell.y + oy
            cnt == Cardinality({q \in (sy..(sy + 1)) \X (sx..(sx + 1)) :
                      \/ (q[2] = cell.x /\ q[1] = cell.y)
                      \/ c[q[1]][q[2]] = Corridor})
        IN /\ ~(sx < 0 \/ sy < 0 \/ sx + 1 >= Cols(c) \/ sy + 1 >= Rows(c))
           /\ cnt >= 3

\* carveCells reading cells[p.y][p.x] but writing cells[p.x][p.y]
carveCells_Transposed(c, path) ==
    [y \in DOMAIN c |-> [x \in DOMAIN c[y] |->
        IF \E k \in 1..Len(path) : /\ path[k].y = x /\ path[k].x = y
                                   /\ c[path[k].y][path[k].x] # Room
        THEN Corridor ELSE c[y][x]]]

\* carveCells stopping one cell short of the end of the path
carveCells_SkipLast(c, path) ==
    [y \in DOMAIN c |-> [x \in DOMAIN c[y] |->
        IF /\ \E k \in 1..(Len(path) - 1) : path[k].x = x /\ path[k].y = y
           /\ c[y][x] # Room
        THEN Corridor ELSE c[y][x]]]

carveCells(c, path) ==
    [y \in DOMAIN c |-> [x \in DOMAIN c[y] |->
        IF /\ \E k \in 1..Len(path) : path[k].x = x /\ path[k].y = y
           /\ c[y][x] # Room
        THEN Corridor ELSE c[y][x]]]

RECURSIVE dedupPolys(_, _)
dedupPolys(polys, acc) ==
    IF polys = <<>> THEN acc
    ELSE dedupPolys(Tail(polys),
            IF \E j \in 1..Len(acc) : acc[j] = Head(polys) THEN acc
            ELSE Append(acc, Head(polys)))

\* candidatePolylines trying the pivot offsets from +2 down to -2
candidatePolylines_DescendingOffsets(c, s, e) ==
    LET cols == Cols(c)
        rows == Rows(c)
        direct == IF s.x = e.x \/ s.y = e.y THEN << <<s, e>> >> ELSE <<>>
        ls == << <<s, Pt(e.x, s.y), e>>, <<s, Pt(s.x, e.y), e>> >>
        midX == (s.x + e.x) \div 2
        midY == (s.y + e.y) \div 2
        zx == [k \in 1..5 |->
                 LET px == clamp(midX + (3 - k), 0, cols - 1)
                 IN <<s, Pt(px, s.y), Pt(px, e.y), e>>]
        zy == [k \in 1..5 |->
                 LET py == clamp(midY + (3 - k), 0, rows - 1)
                 IN <<s, Pt(s.x, py), Pt(e.x, py), e>>]
        unique == dedupPolys(direct \o ls \o zx \o zy, <<>>)
    IN SelectSeq(unique, LAMBDA poly : Len(poly) <= 4)

\* candidatePolylines pushing the direct segment whether or not the exits are
\* aligned
candidatePolylines_AlwaysDirect(c, s, e) ==
    LET cols == Cols(c)
        rows == Rows(c)
        direct == << <<s, e>> >>
        ls == << <<s, Pt(e.x, s.y), e>>, <<s, Pt(s.x, e.y), e>> >>
        midX == (s.x + e.x) \div 2
        midY == (s.y + e.y) \div 2
        zx == [k \in 1..5 |->
                 LET px == clamp(midX + (k - 3), 0, cols - 1)
                 IN <<s, Pt(px, s.y), Pt(px, e.y), e>>]
        zy == [k \in 1..5 |->
                 LET py == clamp(midY + (k - 3), 0, rows - 1)
                 IN <<s, Pt(s.x, py), Pt(e.x, py), e>>]
        unique == dedupPolys(direct \o ls \o zx \o zy, <<>>)
    IN SelectSeq(unique, LAMBDA poly : Len(poly) <= 4)

candidatePolylines(c, s, e) ==
    LET cols == Cols(c)
        rows == Rows(c)
        direct == IF s.x = e.x \/ s.y = e.y THEN << <<s, e>> >> ELSE <<>>
        ls == << <<s, Pt(e.x, s.y), e>>, <<s, Pt(s.x, e.y), e>> >>
        midX == (s.x + e.x) \div 2
        midY == (s.y + e.y) \div 2
        zx == [k \in 1..5 |->
                 LET px == clamp(midX + (k - 3), 0, cols - 1)
                 IN <<s, Pt(px, s.y), Pt(px, e.y), e>>]
        zy == [k \in 1..5 |->
                 LET py == clamp(midY + (k - 3), 0, rows - 1)
                 IN <<s, Pt(s.x, py), Pt(e.x, py), e>>]
        unique == dedupPolys(direct \o ls \o zx \o zy, <<>>)
    IN SelectSeq(unique, LAMBDA poly : Len(poly) <= 4)

\* the per-cell checks of carveCorridorBetween
pathInvalid(c, rs, cellsPath, aIdx, bIdx, start, end) ==
    \E k \in 1..Len(cellsPath) :
        LET p == cellsPath[k]
        IN \/ ~inGrid(c, p.x, p.y)
           \/ roomIndexAt(rs, p.x, p.y) # -1
           \/ cellTooCloseToRooms(rs, p, aIdx, bIdx, start, end)
           \/ corridorTooCloseToOthers(c, p)

\* firstValid without the corridor separation check and the anti-blob test
RECURSIVE firstValid_NoCorridorTests(_, _, _, _, _, _, _, _)
firstValid_NoCorridorTests(c, rs, polys, k, aIdx, bIdx, start, end) ==
    IF k > Len(polys) THEN 0
    ELSE LET cellsPath == polylineToCells(polys[k])
         IN IF \E i \in 1..Len(cellsPath) :
                  \/ ~inGrid(c, cellsPath[i].x, cellsPath[i].y)
                  \/ roomIndexAt(rs, cellsPath[i].x, cellsPath[i].y) # -1
                  \/ cellTooCloseToRooms(rs, cellsPath[i], aIdx, bIdx, start, end)
            THEN firstValid_NoCorridorTests(c, rs, polys, k + 1, aIdx, bIdx, start, end)
            ELSE k

\* the loop "for (const poly of polys)": the index of the first candidate that
\* passes every check, 0 when none does
RECURSIVE firstValid(_, _, _, _, _, _, _, _)
firstValid(c, rs, polys, k, aIdx, bIdx, start, end) ==
    IF k > Len(polys) THEN 0
    ELSE LET cellsPath == polylineToCells(polys[k])
         IN IF pathInvalid(c, rs, cellsPath, aIdx, bIdx, start, end)
            THEN firstValid(c, rs, polys, k + 1, aIdx, bIdx, start, end)
            ELSE IF createsCorridorSquare(c, cellsPath)
            THEN firstValid(c, rs, polys, k + 1, aIdx, bIdx, start, end)
            ELSE k

\* [ok, cells, path, start, end, polys, chosen]: the returned boolean, the grid
\* after the call, the carved path (<<>> when none), the two exit cells, the
\* candidates and the index of the one carved (0 when none)
carveCorridorBetween(c, rs, ps, aIdx, bIdx) ==
    LET aCenter == ps[aIdx + 1]
        bCenter == ps[bIdx + 1]
        start == exitCellFromCenter(c, rs, aIdx, bCenter)
        end == exitCellFromCenter(c, rs, bIdx, aCenter)
        polys == candidatePolylines(c, start, end)
        k == firstValid(c, rs, polys, 1, aIdx, bIdx, start, end)
    IN IF k = 0
       THEN [ok |-> FALSE, cells |-> c, path |-> <<>>, start |-> start, end |-> end,
             polys |-> polys, chosen |-> 0]
       ELSE LET cellsPath == polylineToCells(polys[k])
            IN [ok |-> TRUE, cells |-> carveCells(c, cellsPath), path |-> cellsPath,
                start |-> start, end |-> end, polys |-> polys, chosen |-> k]

(***************************************************************************)
(* Spec : createDungeon, one step per iteration of each of its loops.      *)
(***************************************************************************)
Init ==
    /\ pc = "place"
    /\ cells = createEmptyDungeon(DUNGEON_SIZE, DUNGEON_SIZE)
    /\ rooms = <<>>
    /\ attempts = 0
    /\ points = <<>>
    /\ roomGraph = NoGraph
    /\ mst = <<>>
    /\ adjacency = <<>>
    /\ finalEdges = <<>>
    /\ augIdx = 0
    /\ carveIdx = 0
    /\ carved = <<>>

\* one iteration of the placement loop whose area test succeeds
PlaceAccepted ==
    /\ pc = "place"
    /\ PlacementLoopCond
    /\ \E d \in RoomDraws :
          /\ AttemptAccepted(cells, d)
          /\ cells' = placeRoom(cells, NewRoom(d))
          /\ rooms' = Append(rooms, NewRoom(d))
    /\ attempts' = attempts + 1
    /\ UNCHANGED <<pc, points, roomGraph, mst, adjacency, finalEdges, augIdx,
                   carveIdx, carved>>

\* one iteration of the placement loop whose area test fails
PlaceRejected ==
    /\ pc = "place"
    /\ PlacementLoopCond
    /\ SomeDrawRejected(cells) = TRUE
    /\ attempts' = attempts + 1
    /\ UNCHANGED <<pc, cells, rooms, points, roomGraph, mst, adjacency, finalEdges,
                   augIdx, carveIdx, carved>>

degreeIn(es, v) ==
    Cardinality({j \in 1..Len(es) : es[j].a = v}) + Cardinality({j \in 1..Len(es) : es[j].b = v})

\* lines 120-138: the graph, the MST, the degree counters, finalEdges
BuildGraph ==
    /\ pc = "place"
    /\ ~PlacementLoopCond
    /\ LET ps == [j \in 1..Len(rooms) |-> Pt(rooms[j].center.x, rooms[j].center.y)]
           g == createGraphFromPoints(ps)
           t == primMST(ps, g.edges)
       IN /\ points' = ps
          /\ roomGraph' = g
          /\ mst' = t
          /\ adjacency' = [j \in 1..Len(ps) |-> degreeIn(t, j - 1)]
          /\ finalEdges' = t
    /\ augIdx' = 0
    /\ pc' = "augment"
    /\ UNCHANGED <<cells, rooms, attempts, carveIdx, carved>>

inMstSet(e) == \E j \in 1..Len(mst) : edgeKey(mst[j].a, mst[j].b) = edgeKey(e.a, e.b)

\* augmentAccepts without the two degree tests
augmentAccepts_NoDegreeTest(adj, e, pass) == pass

\* whether the loop body accepts candidate e; pass: Math.random() <= EXTRA_EDGE_CHANCE
augmentAccepts(adj, e, pass) ==
    /\ pass
    /\ ~(adj[e.a + 1] > MAX_ALLOWED_CONNECTIONS)
    /\ ~(adj[e.b + 1] > MAX_ALLOWED_CONNECTIONS)

\* one iteration of "for (const e of roomGraph.edges)"
AugmentStep ==
    /\ pc = "augment"
    /\ augIdx < Len(roomGraph.edges)
    /\ LET e == roomGraph.edges[augIdx + 1]
       IN IF inMstSet(e)
          THEN UNCHANGED <<finalEdges, adjacency>>
          ELSE \E pass \in BOOLEAN :
                  IF augmentAccepts(adjacency, e, pass)
                  THEN /\ finalEdges' = Append(finalEdges, e)
                       /\ adjacency' = [adjacency EXCEPT ![e.a + 1] = @ + 1,
                                                         ![e.b + 1] = @ + 1]
                  ELSE UNCHANGED <<finalEdges, adjacency>>
    /\ augIdx' = augIdx + 1
    /\ UNCHANGED <<pc, cells, rooms, attempts, points, roomGraph, mst, carveIdx, carved>>

AugmentDone ==
    /\ pc = "augment"
    /\ augIdx >= Len(roomGraph.edges)
    /\ pc' = "carve"
    /\ UNCHANGED <<cells, rooms, attempts, points, roomGraph, mst, adjacency,
                   finalEdges, augIdx, carveIdx, carved>>

\* one iteration of "for (const e of finalEdges)"
CarveStep ==
    /\ pc = "carve"
    /\ carveIdx < Len(finalEdges)
    /\ LET e == finalEdges[carveIdx + 1]
           r == carveCorridorBetween(cells, rooms, points, e.a, e.b)
       IN /\ cells' = r.cells
          /\ carved' = Append(carved, [a |-> e.a, b |-> e.b, ok |-> r.ok,
                                       path |-> r.path, start |-> r.start,
                                       end |-> r.end])
    /\ carveIdx' = carveIdx + 1
    /\ UNCHANGED <<pc, rooms, attempts, points, roomGraph, mst, adjacency,
                   finalEdges, augIdx>>

Finish ==
    /\ pc = "carve"
    /\ carveIdx >= Len(finalEdges)
    /\ pc' = "done"
    /\ UNCHANGED <<cells, rooms, attempts, points, roomGraph, mst, adjacency,
                   finalEdges, augIdx, carveIdx, carved>>

Next ==
    \/ PlaceAccepted
    \/ PlaceRejected
    \/ BuildGraph
    \/ AugmentStep
    \/ AugmentDone
    \/ CarveStep
    \/ Finish

Spec == Init /\ [][Next]_vars

(***************************************************************************)
(* SpecAug : lines 120-164 of createDungeon (graph, MST, degree counters,  *)
(* loop augmentation) as a function of the room centers and of the random  *)
(* draws.  The centers are those of MIN_ROOM_SIZE rooms laid on a lattice  *)
(* of step MIN_ROOM_SIZE + ROOM_SEPARATION, the closest the placement loop *)
(* allows: up to AUG_MAX_POINTS distinct centers with lattice indices in   *)
(* 0..AUG_LATTICE_X by 0..AUG_LATTICE_Y.                                   *)
(***************************************************************************)
AUG_MAX_POINTS == 5
AUG_LATTICE_X == 2
AUG_LATTICE_Y == 1

LatticeCenters ==
    {NewRoom([w |-> MIN_ROOM_SIZE, h |-> MIN_ROOM_SIZE,
              x |-> i * (MIN_ROOM_SIZE + ROOM_SEPARATION),
              y |-> j * (MIN_ROOM_SIZE + ROOM_SEPARATION)]).center :
        i \in 0..AUG_LATTICE_X, j \in 0..AUG_LATTICE_Y}

DistinctSeqs(S, n) == {q \in SeqsOf(S, n) : \A i, j \in 1..n : i # j => q[i] # q[j]}

AugInputs == UNION {DistinctSeqs(LatticeCenters, n) : n \in 0..AUG_MAX_POINTS}

InitAug ==
    /\ pc = "aug_input"
    /\ points \in AugInputs
    /\ roomGraph = NoGraph
    /\ mst = <<>>
    /\ cells = NoCells
    /\ rooms = <<>>
    /\ attempts = 0
    /\ adjacency = <<>>
    /\ finalEdges = <<>>
    /\ augIdx = 0
    /\ carveIdx = 0
    /\ carved = <<>>

\* lines 122-138 on the given centers
AugBuild ==
    /\ pc = "aug_input"
    /\ LET g == createGraphFromPoints(points)
           t == primMST(points, g.edges)
       IN /\ roomGraph' = g
          /\ mst' = t
          /\ adjacency' = [j \in 1..Len(points) |-> degreeIn(t, j - 1)]
          /\ finalEdges' = t
    /\ augIdx' = 0
    /\ pc' = "augment"
    /\ UNCHANGED <<cells, rooms, attempts, points, carveIdx, carved>>

NextAug ==
    \/ AugBuild
    \/ AugmentStep
    \/ AugmentDone

SpecAug == InitAug /\ [][NextAug]_vars

(***************************************************************************)
(* SpecMST : primMST as a function of a point list and of a candidate edge *)
(* list, any list and not only a triangulation: up to MST_MAX_POINTS       *)
(* distinct points of the box 0..MST_BOX_X by 0..MST_BOX_Y, and up to      *)
(* MST_MAX_EDGES edges, repeats allowed, written a < b throughout or       *)
(* a > b throughout.                                                       *)
(***************************************************************************)
MST_MAX_POINTS == 4
MST_BOX_X == 2
MST_BOX_Y == 1
MST_MAX_EDGES == 4

MstPointLists ==
    UNION {DistinctSeqs({Pt(x, y) : x \in 0..MST_BOX_X, y \in 0..MST_BOX_Y}, n) :
             n \in 0..MST_MAX_POINTS}

ForwardEdges(n) == {Edge(a, b) : a \in 0..(n - 1), b \in 0..(n - 1)} \cap
                   {e \in [a : 0..(n - 1), b : 0..(n - 1)] : e.a < e.b}

Reversed(es) == [j \in 1..Len(es) |-> Edge(es[j].b, es[j].a)]

MstEdgeLists(n) ==
    LET fwd == UNION {SeqsOf(ForwardEdges(n), m) : m \in 0..MST_MAX_EDGES}
    IN fwd \cup {Reversed(es) : es \in fwd}

InitMST ==
    /\ pc = "mst_input"
    /\ points \in MstPointLists
    /\ roomGraph \in {[edges |-> es, triangles |-> <<>>] : es \in MstEdgeLists(Len(points))}
    /\ mst = <<>>
    /\ cells = NoCells
    /\ rooms = <<>>
    /\ attempts = 0
    /\ adjacency = <<>>
    /\ finalEdges = <<>>
    /\ augIdx = 0
    /\ carveIdx = 0
    /\ carved = <<>>

MstPrim ==
    /\ pc = "mst_input"
    /\ mst' = primMST(points, roomGraph.edges)
    /\ pc' = "mst_done"
    /\ UNCHANGED <<cells, rooms, attempts, points, roomGraph, adjacency, finalEdges,
                   augIdx, carveIdx, carved>>

NextMST == MstPrim

SpecMST == InitMST /\ [][NextMST]_vars

(***************************************************************************)
(* SpecCarve : createDungeon from the end of the placement loop on (graph, *)
(* augmentation, corridor router), as a function of the rooms the loop     *)
(* placed.  The rooms are CARVE_ROOMS rooms of MIN_ROOM_SIZE in a grid of  *)
(* CARVE_SIZE cells a side, at x in {0, 4, .., 4 * CARVE_NX} and y in      *)
(* {8 * j + k : j in 0..CARVE_NY, k in 0..CARVE_JITTER} (8 = MIN_ROOM_SIZE *)
(* + ROOM_SEPARATION), each accepted by the area test of the placement     *)
(* loop in the order of the list.                                          *)
(***************************************************************************)
CARVE_SIZE == 16
CARVE_ROOMS == 3
CARVE_NX == 3
CARVE_NY == 1
CARVE_JITTER == 1

CarveDraws ==
    {[w |-> MIN_ROOM_SIZE, h |-> MIN_ROOM_SIZE, x |-> 4 * i,
      y |-> (MIN_ROOM_SIZE + ROOM_SEPARATION) * j + k] :
        i \in 0..CARVE_NX, j \in 0..CARVE_NY, k \in 0..CARVE_JITTER}

\* the grid after the first n draws of q were placed
RECURSIVE CarveGrid(_, _)
CarveGrid(q, n) ==
    IF n = 0 THEN createEmptyDungeon(CARVE_SIZE, CARVE_SIZE)
    ELSE placeRoom(CarveGrid(q, n - 1), NewRoom(q[n]))

CarveLayouts ==
    {q \in DistinctSeqs(CarveDraws, CARVE_ROOMS) :
        \A n \in 1..Len(q) :
            /\ q[n].x < CARVE_SIZE - q[n].w
            /\ q[n].y < CARVE_SIZE - q[n].h
            /\ AttemptAccepted(CarveGrid(q, n - 1), q[n])}

InitCarve ==
    /\ pc = "place"
    /\ \E q \in CarveLayouts :
          /\ rooms = [n \in 1..Len(q) |-> NewRoom(q[n])]
          /\ cells = CarveGrid(q, Len(q))
    /\ attempts = MAX_ROOMS * ATTEMPTS_PER_ROOM
    /\ points = <<>>
    /\ roomGraph = NoGraph
    /\ mst = <<>>
    /\ adjacency = <<>>
    /\ finalEdges = <<>>
    /\ augIdx = 0
    /\ carveIdx = 0
    /\ carved = <<>>

NextCarve ==
    \/ BuildGraph
    \/ AugmentStep
    \/ AugmentDone
    \/ CarveStep
    \/ Finish

SpecCarve == InitCarve /\ [][NextCarve]_vars

(***************************************************************************)
(* Properties of room placement                                            *)
(***************************************************************************)
\* the Chebyshev distance between the closest cells of two rooms
RoomGapX(r, q) == Max(0, Max(q.x - (r.x + r.width - 1), r.x - (q.x + q.width - 1)))
RoomGapY(r, q) == Max(0, Max(q.y - (r.y + r.height - 1), r.y - (q.y + q.height - 1)))
RoomChebyshev(r, q) == Max(RoomGapX(r, q), RoomGapY(r, q))
RoomsOverlap(r, q) ==
    \E x \in r.x..(r.x + r.width - 1), y \in r.y..(r.y + r.height - 1) : inRoom(q, x, y)

\* C1: any two distinct placed rooms do not overlap, the Chebyshev distance
\* between their closest cells is at least ROOM_SEPARATION, and at least
\* ROOM_SEPARATION cells of clearance lie between them.
C1_RoomSeparation ==
    \A i, j \in 1..Len(rooms) :
        i # j => /\ ~RoomsOverlap(rooms[i], rooms[j])
                 /\ RoomChebyshev(rooms[i], rooms[j]) >= ROOM_SEPARATION
                 /\ RoomChebyshev(rooms[i], rooms[j]) - 1 >= ROOM_SEPARATION

\* two rooms placed with exactly ROOM_SEPARATION cells of clearance between them
C1_Witness ==
    \E i, j \in 1..Len(rooms) :
        i # j /\ RoomChebyshev(rooms[i], rooms[j]) - 1 = ROOM_SEPARATION

(***************************************************************************)
(* Properties of the grid and of corridor carving                          *)
(***************************************************************************)
\* C2: once a cell is of type room it stays of type room: no step of
\* createDungeon, corridor carving included, turns a room cell into a
\* corridor or an empty cell.
C2_RoomCellsKept ==
    [][\A y \in DOMAIN cells : \A x \in DOMAIN cells[y] :
          cells[y][x] = Room => cells'[y][x] = Room]_vars

\* a corridor has been carved on a grid that holds rooms
C2_Witness ==
    /\ Len(rooms) >= 2
    /\ \E y \in DOMAIN cells : \E x \in DOMAIN cells[y] : cells[y][x] = Corridor
    /\ \E y \in DOMAIN cells : \E x \in DOMAIN cells[y] : cells[y][x] = Room

\* the Chebyshev distance from cell p to the nearest cell of room r
CellRoomChebyshev(r, p) ==
    Max(Max(0, Max(r.x - p.x, p.x - (r.x + r.width - 1))),
        Max(0, Max(r.y - p.y, p.y - (r.y + r.height - 1))))

\* C3: every cell of a carved corridor path is at Chebyshev distance at least
\* ROOM_CORRIDOR_GAP from every room, except the first cell with respect to
\* the source room and the last cell with respect to the destination room.
C3_CorridorRoomGap ==
    \A n \in 1..Len(carved) :
        carved[n].ok =>
            \A k \in 1..Len(carved[n].path) : \A i \in 1..Len(rooms) :
                \/ CellRoomChebyshev(rooms[i], carved[n].path[k]) >= ROOM_CORRIDOR_GAP
                \/ (k = 1 /\ i = carved[n].a + 1)
                \/ (k = Len(carved[n].path) /\ i = carved[n].b + 1)

\* a corridor was carved whose two connectors touch their rooms and whose
\* inner cells all had to keep the gap
C3_Witness ==
    \E n \in 1..Len(carved) :
        /\ carved[n].ok
        /\ Len(carved[n].path) >= 3
        /\ CellRoomChebyshev(rooms[carved[n].a + 1], carved[n].path[1]) < ROOM_CORRIDOR_GAP
        /\ CellRoomChebyshev(rooms[carved[n].b + 1],
                             carved[n].path[Len(carved[n].path)]) < ROOM_CORRIDOR_GAP

\* the grid c with every cell of path turned into a corridor
WithCorridor(c, path) ==
    [y \in DOMAIN c |-> [x \in DOMAIN c[y] |->
        IF \E k \in 1..Len(path) : path[k].x = x /\ path[k].y = y
        THEN Corridor ELSE c[y][x]]]

\* C4: each edge of finalEdges is attempted at most once, and an attempt is
\* all-or-nothing: when some candidate path passes validation, exactly the
\* cells of one valid candidate become corridor, and when none does, the
\* grid is unchanged.
C4_CarveOnceAllOrNothing ==
    [][carveIdx' # carveIdx =>
        LET e == finalEdges[carveIdx + 1]
            start == exitCellFromCenter(cells, rooms, e.a, points[e.b + 1])
            end == exitCellFromCenter(cells, rooms, e.b, points[e.a + 1])
            polys == candidatePolylines(cells, start, end)
            valid(k) == LET path == polylineToCells(polys[k])
                        IN /\ ~pathInvalid(cells, rooms, path, e.a, e.b, start, end)
                           /\ ~createsCorridorSquare(cells, path)
        IN /\ carveIdx' = carveIdx + 1
           /\ finalEdges' = finalEdges
           /\ \A j \in 1..carveIdx :
                 edgeKey(finalEdges[j].a, finalEdges[j].b) # edgeKey(e.a, e.b)
           /\ IF \E k \in 1..Len(polys) : valid(k)
              THEN \E k \in 1..Len(polys) :
                      /\ valid(k)
                      /\ cells' = WithCorridor(cells, polylineToCells(polys[k]))
              ELSE cells' = cells]_vars

\* both outcomes have happened: an edge was carved and an edge was dropped
C4_Witness ==
    /\ \E n \in 1..Len(carved) : carved[n].ok /\ Len(carved[n].path) >= 2
    /\ \E n \in 1..Len(carved) : ~carved[n].ok

\* C5: the placement loop makes at most MAX_ROOMS * ATTEMPTS_PER_ROOM
\* attempts and places between 0 and MAX_ROOMS rooms; it is left only with
\* MAX_ROOMS rooms placed or with the attempt budget used up, and every
\* iteration uses one attempt.
C5_PlacementBounded ==
    /\ [](/\ attempts \in 0..(MAX_ROOMS * ATTEMPTS_PER_ROOM)
          /\ Len(rooms) \in 0..MAX_ROOMS
          /\ Len(rooms) <= attempts
          /\ pc # "place" =>
                (Len(rooms) = MAX_ROOMS \/ attempts = MAX_ROOMS * ATTEMPTS_PER_ROOM))
    /\ [][(pc = "place" /\ pc' = "place") => attempts' = attempts + 1]_vars

\* the loop was left on the attempt budget, with fewer than MAX_ROOMS rooms
C5_Witness ==
    /\ pc # "place"
    /\ attempts = MAX_ROOMS * ATTEMPTS_PER_ROOM
    /\ Len(rooms) < MAX_ROOMS

(***************************************************************************)
(* Properties of primMST                                                   *)
(***************************************************************************)
\* the vertices reached from the set R along the edges es (a sequence)
RECURSIVE ReachedFrom(_, _)
ReachedFrom(R, es) ==
    LET more == R \cup {es[j].b : j \in {i \in 1..Len(es) : es[i].a \in R}}
                  \cup {es[j].a : j \in {i \in 1..Len(es) : es[i].b \in R}}
    IN IF more = R THEN R ELSE ReachedFrom(more, es)

\* the edges es connect the n points 0..n-1
Connects(n, es) == n >= 1 /\ ReachedFrom({0}, es) = 0..(n - 1)

PickEdges(es, T) == SelectSeq([j \in 1..Len(es) |-> <<j, es[j]>>], LAMBDA q : q[1] \in T)

\* the sub-lists of es that are spanning trees of the n points
SpanningTrees(n, es) ==
    {t \in {[j \in 1..Len(PickEdges(es, T)) |-> PickEdges(es, T)[j][2]] :
                T \in {U \in SUBSET (1..Len(es)) : Cardinality(U) = n - 1}} :
        Connects(n, t)}

\* the squared lengths of the edges es
SquaredLengths(ps, es) == [j \in 1..Len(es) |-> dist2(ps, es[j].a, es[j].b)]

\* the greatest r with r * r <= n
RECURSIVE RootBelow(_, _, _)
RootBelow(n, lo, hi) ==
    IF lo >= hi THEN lo
    ELSE LET mid == (lo + hi + 1) \div 2
         IN IF mid * mid <= n THEN RootBelow(n, mid, hi) ELSE RootBelow(n, lo, mid - 1)

SqrtScale == 2 ^ 10
\* integers below and above SqrtScale * sqrt(q)
SqrtLow(q) == RootBelow(q * SqrtScale * SqrtScale, 0, (q + 1) * SqrtScale)
SqrtHigh(q) == LET r == SqrtLow(q)
               IN IF r * r = q * SqrtScale * SqrtScale THEN r ELSE r + 1

RECURSIVE SumLow(_)
SumLow(qs) == IF qs = <<>> THEN 0 ELSE SqrtLow(Head(qs)) + SumLow(Tail(qs))
RECURSIVE SumHigh(_)
SumHigh(qs) == IF qs = <<>> THEN 0 ELSE SqrtHigh(Head(qs)) + SumHigh(Tail(qs))

\* qs without one occurrence of q
RECURSIVE Without(_, _)
Without(qs, q) ==
    IF qs = <<>> THEN <<>>
    ELSE IF Head(qs) = q THEN Tail(qs) ELSE <<Head(qs)>> \o Without(Tail(qs), q)

\* qs and rs with their common terms cancelled
RECURSIVE Cancelled(_, _, _)
Cancelled(qs, rs, kept) ==
    IF qs = <<>> THEN <<kept, rs>>
    ELSE IF \E j \in 1..Len(rs) : rs[j] = Head(qs)
    THEN Cancelled(Tail(qs), Without(rs, Head(qs)), kept)
    ELSE Cancelled(Tail(qs), rs, Append(kept, Head(qs)))

\* the sum of the square roots of qs is at most that of rs: equal terms are
\* cancelled, and what is left is compared through integer bounds of the
\* roots (TRUE only when the inequality is certain)
RootSumAtMost(qs, rs) ==
    LET c == Cancelled(qs, rs, <<>>)
    IN c[1] = <<>> \/ SumHigh(c[1]) <= SumLow(c[2])

\* C6: for N points and a candidate edge list that connects them all, primMST
\* returns exactly N-1 edges, every one an edge of the candidate list, that
\* connect all N points, and no spanning tree made of candidate edges has a
\* smaller total Euclidean length.
C6_PrimMinimumSpanningTree ==
    (pc = "mst_done" /\ Connects(Len(points), roomGraph.edges)) =>
        /\ Len(mst) = Len(points) - 1
        /\ \A j \in 1..Len(mst) : \E i \in 1..Len(roomGraph.edges) :
               mst[j] = roomGraph.edges[i]
        /\ Connects(Len(points), mst)
        /\ \A t \in SpanningTrees(Len(points), roomGraph.edges) :
               RootSumAtMost(SquaredLengths(points, mst), SquaredLengths(points, t))

\* primMST ran on a connected candidate list that also holds a strictly
\* longer spanning tree
C6_Witness ==
    /\ pc = "mst_done"
    /\ Len(points) = MST_MAX_POINTS
    /\ Connects(Len(points), roomGraph.edges)
    /\ \E t \in SpanningTrees(Len(points), roomGraph.edges) :
           SumHigh(SquaredLengths(points, mst)) < SumLow(SquaredLengths(points, t))

(***************************************************************************)
(* Properties of the loop augmentation                                     *)
(***************************************************************************)
\* C7, as stated: after the augmentation loop no point has more than
\* MAX_ALLOWED_CONNECTIONS edges of finalEdges.
C7_DegreeAtMostTwo ==
    pc = "carve" =>
        \A v \in 0..(Len(points) - 1) : degreeIn(finalEdges, v) <= MAX_ALLOWED_CONNECTIONS

\* What the loop does guarantee in place of C7: the degree counters are the
\* degrees in finalEdges; an extra edge is accepted only when, before it is
\* added, both its endpoints have at most MAX_ALLOWED_CONNECTIONS edges; hence
\* no point ends with more than MAX_ALLOWED_CONNECTIONS + 1 edges unless the
\* MST alone gives it more.
C7_DegreeAfterAugment ==
    /\ [](pc \in {"augment", "carve"} =>
            \A v \in 0..(Len(points) - 1) :
                /\ adjacency[v + 1] = degreeIn(finalEdges, v)
                /\ degreeIn(finalEdges, v) <=
                       Max(degreeIn(mst, v), MAX_ALLOWED_CONNECTIONS + 1))
    /\ [][(pc = "augment" /\ finalEdges' # finalEdges) =>
             LET e == finalEdges'[Len(finalEdges')]
             IN /\ finalEdges' = Append(finalEdges, e)
                /\ e = roomGraph.edges[augIdx + 1]
                /\ ~inMstSet(e)
                /\ degreeIn(finalEdges, e.a) <= MAX_ALLOWED_CONNECTIONS
                /\ degreeIn(finalEdges, e.b) <= MAX_ALLOWED_CONNECTIONS]_vars

\* the loop ended with a point that an extra edge raised from
\* MAX_ALLOWED_CONNECTIONS edges to MAX_ALLOWED_CONNECTIONS + 1
C7_Witness ==
    /\ pc = "carve"
    /\ \E v \in 0..(Len(points) - 1) :
          /\ degreeIn(finalEdges, v) = MAX_ALLOWED_CONNECTIONS + 1
          /\ degreeIn(mst, v) <= MAX_ALLOWED_CONNECTIONS

(***************************************************************************)
(* Properties of createGraphFromPoints                                     *)
(***************************************************************************)
\* twice the signed area of the triangle p, q, r
Orient(p, q, r) == (q.x - p.x) * (r.y - p.y) - (q.y - p.y) * (r.x - p.x)

NoCollinearTriple(ps) ==
    \A i, j, k \in 1..Len(ps) : (i < j /\ j < k) => Orient(ps[i], ps[j], ps[k]) # 0

\* the segments pq and rs cross at a point interior to both
ProperlyCross(p, q, r, s) ==
    /\ Sign(Orient(p, q, r)) * Sign(Orient(p, q, s)) < 0
    /\ Sign(Orient(r, s, p)) * Sign(Orient(r, s, q)) < 0

\* C8: when the input has at least three points and no three of them are
\* collinear, no two edges of the returned graph properly cross.
C8_NoCrossingEdges ==
    (pc # "tri_input" /\ Len(points) >= 3 /\ NoCollinearTriple(points)) =>
        \A i, j \in 1..Len(roomGraph.edges) :
            LET e == roomGraph.edges[i]
                f == roomGraph.edges[j]
            IN ~ProperlyCross(points[e.a + 1], points[e.b + 1],
                              points[f.a + 1], points[f.b + 1])

\* four points in convex position, no three collinear: the two diagonals
\* cross, and the graph holds the four sides and one diagonal
C8_Witness ==
    /\ pc = "tri_graph"
    /\ Len(points) = 4
    /\ NoCollinearTriple(points)
    /\ \E i, j, k, l \in 1..4 :
          /\ Cardinality({i, j, k, l}) = 4
          /\ ProperlyCross(points[i], points[j], points[k], points[l])
    /\ Len(roomGraph.edges) = 5

\* C9: every edge of the returned graph joins two distinct indices of the
\* input, no unordered pair appears twice, and an input of at most two
\* points gives no edge.
C9_EdgesWellFormed ==
    pc # "tri_input" =>
        /\ \A j \in 1..Len(roomGraph.edges) :
              /\ roomGraph.edges[j].a \in 0..(Len(points) - 1)
              /\ roomGraph.edges[j].b \in 0..(Len(points) - 1)
              /\ roomGraph.edges[j].a # roomGraph.edges[j].b
        /\ \A i, j \in 1..Len(roomGraph.edges) :
              i # j => edgeKey(roomGraph.edges[i].a, roomGraph.edges[i].b)
                         # edgeKey(roomGraph.edges[j].a, roomGraph.edges[j].b)
        /\ Len(points) <= 2 => roomGraph.edges = <<>>

\* two triangles that share an edge were returned, and the shared edge is
\* listed once
C9_Witness ==
    /\ pc = "tri_graph"
    /\ Len(roomGraph.triangles) = 2
    /\ Len(roomGraph.edges) = 5

\* the multiset of the two smallest of three values
TwoSmallest(q) ==
    LET big == CHOOSE j \in 1..3 : \A i \in 1..3 : q[i] <= q[j]
    IN {<<i, q[i]>> : i \in (1..3) \ {big}}

\* C10, as stated: three non-collinear points give one triangle and three
\* edges, and the MST is made of the two shortest of the three edges.
C10_ThreePoints ==
    (pc = "tri_done" /\ Len(points) = 3 /\ NoCollinearTriple(points)) =>
        /\ Len(roomGraph.triangles) = 1
        /\ Len(roomGraph.edges) = 3
        /\ Len(mst) = 2
        /\ LET all == <<dist2(points, 0, 1), dist2(points, 0, 2), dist2(points, 1, 2)>>
               small == TwoSmallest(all)
               got == SquaredLengths(points, mst)
           IN /\ edgeKey(mst[1].a, mst[1].b) # edgeKey(mst[2].a, mst[2].b)
              /\ \E x, y \in small : x # y /\ {got[1], got[2]} = {x[2], y[2]}
                                     /\ (got[1] = got[2] => x[2] = y[2])

(***************************************************************************)
(* Properties of the corridor router                                       *)
(***************************************************************************)
\* the cell next to room r on the side that faces the point t, in the row
\* (column) of the room's center; the x axis on ties
ExitToward(r, t) ==
    LET dx == t.x - r.center.x
        dy == t.y - r.center.y
    IN IF Abs(dx) >= Abs(dy)
       THEN Pt(IF dx > 0 THEN r.x + r.width ELSE r.x - 1, r.center.y)
       ELSE Pt(r.center.x, IF dy > 0 THEN r.y + r.height ELSE r.y - 1)

\* the cells of the straight segment between two cells of one row or column
SegmentBetween(p, q) ==
    {Pt(x, y) : x \in Min(p.x, q.x)..Max(p.x, q.x), y \in Min(p.y, q.y)..Max(p.y, q.y)}

\* a corridor cell of grid c lies within Chebyshev distance g of cell p
CorridorWithin(c, p, g) ==
    \E y \in DOMAIN c : \E x \in DOMAIN c[y] :
        /\ c[y][x] = Corridor
        /\ ~(x = p.x /\ y = p.y)
        /\ Max(Abs(x - p.x), Abs(y - p.y)) <= g

\* grid c with the cells of the set S turned into corridor
WithCorridorSet(c, S) ==
    [y \in DOMAIN c |-> [x \in DOMAIN c[y] |->
        IF Pt(x, y) \in S THEN Corridor ELSE c[y][x]]]

\* C11: when the exit cells of the two rooms of an edge share a row or a
\* column and nothing obstructs the segment between them (its cells are
\* empty, no corridor touches them, no third room is within
\* ROOM_CORRIDOR_GAP), the router carves exactly the cells of that segment.
C11_StraightCorridor ==
    [][carveIdx' # carveIdx =>
        LET e == finalEdges[carveIdx + 1]
            s == ExitToward(rooms[e.a + 1], rooms[e.b + 1].center)
            t == ExitToward(rooms[e.b + 1], rooms[e.a + 1].center)
            seg == SegmentBetween(s, t)
            free == \A p \in seg :
                       /\ inGrid(cells, p.x, p.y)
                       /\ cells[p.y][p.x] = Empty
                       /\ ~CorridorWithin(cells, p, CORRIDOR_CORRIDOR_GAP)
                       /\ \A i \in 1..Len(rooms) :
                             (i # e.a + 1 /\ i # e.b + 1) =>
                                 CellRoomChebyshev(rooms[i], p) >= ROOM_CORRIDOR_GAP
        IN ((s.x = t.x \/ s.y = t.y) /\ free) =>
               cells' = WithCorridorSet(cells, seg)]_vars

\* a straight corridor was carved between two rooms whose centers share a row
\* or a column
C11_Witness ==
    \E n \in 1..Len(carved) :
        LET ra == rooms[carved[n].a + 1]
            rb == rooms[carved[n].b + 1]
        IN /\ carved[n].ok
           /\ (ra.center.x = rb.center.x \/ ra.center.y = rb.center.y)
           /\ Len(carved[n].path) >= ROOM_SEPARATION
           /\ \A k \in 1..Len(carved[n].path) :
                 \/ carved[n].path[k].x = carved[n].path[1].x
                 \/ carved[n].path[k].y = carved[n].path[1].y
           /\ \A k \in 1..Len(carved[n].path) :
                 carved[n].path[k].x = carved[n].path[1].x
                 \/ \A j \in 1..Len(carved[n].path) :
                       carved[n].path[j].y = carved[n].path[1].y

\* the routes between exits s and t in the order of the claim: the direct
\* segment when they share a row or column, the horizontal-first L, the
\* vertical-first L, the x-pivot Z routes for offsets -2..2, the y-pivot Z
\* routes for offsets -2..2 (pivots kept inside the grid)
RouteOrder(c, s, t) ==
    LET mx == (s.x + t.x) \div 2
        my == (s.y + t.y) \div 2
        px(o) == Max(0, Min(Cols(c) - 1, mx + o))
        py(o) == Max(0, Min(Rows(c) - 1, my + o))
    IN (IF s.x = t.x \/ s.y = t.y THEN << <<s, t>> >> ELSE <<>>)
       \o << <<s, Pt(t.x, s.y), t>> >>
       \o << <<s, Pt(s.x, t.y), t>> >>
       \o [k \in 1..5 |-> <<s, Pt(px(k - 3), s.y), Pt(px(k - 3), t.y), t>>]
       \o [k \in 1..5 |-> <<s, Pt(s.x, py(k - 3)), Pt(t.x, py(k - 3)), t>>]

\* route r between the exits of rooms a and b passes validation on grid c
RoutePasses(c, r, a, b, s, t) ==
    /\ ~pathInvalid(c, rooms, polylineToCells(r), a, b, s, t)
    /\ ~createsCorridorSquare(c, polylineToCells(r))

\* C13: each carve step handles the next edge of the final edge list, carves
\* exactly the first route, in the order direct / L horizontal-first / L
\* vertical-first / x-pivot Z -2..2 / y-pivot Z -2..2, that passes validation
\* (nothing when none passes), and leaves every corridor cell carved before a
\* corridor cell.
C13_FirstValidCandidate ==
    [][carveIdx' # carveIdx =>
        LET e == finalEdges[carveIdx + 1]
            s == ExitToward(rooms[e.a + 1], rooms[e.b + 1].center)
            t == ExitToward(rooms[e.b + 1], rooms[e.a + 1].center)
            rs == RouteOrder(cells, s, t)
            ok == {k \in 1..Len(rs) : RoutePasses(cells, rs[k], e.a, e.b, s, t)}
            done == carved'[Len(carved')]
        IN /\ carveIdx' = carveIdx + 1
           /\ Len(carved') = carveIdx'
           /\ done.a = e.a /\ done.b = e.b
           /\ done.ok = (ok # {})
           /\ IF ok = {}
              THEN cells' = cells
              ELSE LET k0 == CHOOSE k \in ok : \A j \in ok : k <= j
                       path == polylineToCells(rs[k0])
                   IN /\ done.path = path
                      /\ cells' = WithCorridorSet(cells, {path[i] : i \in 1..Len(path)})
           /\ \A y \in DOMAIN cells : \A x \in DOMAIN cells[y] :
                 cells[y][x] = Corridor => cells'[y][x] = Corridor]_vars

\* a second corridor was carved after a first one, along a route with a bend:
\* the routes before it in the order were examined and failed
C13_Witness ==
    \E n \in 2..Len(carved) :
        /\ carved[1].ok
        /\ carved[n].ok
        /\ \E i \in 1..Len(carved[n].path) : carved[n].path[i].x # carved[n].start.x
        /\ \E i \in 1..Len(carved[n].path) : carved[n].path[i].y # carved[n].start.y
        /\ \A i \in 1..Len(carved[1].path) :
              cells[carved[1].path[i].y][carved[1].path[i].x] = Corridor

\* the cells of the routes examined for edge e, as a set
RouteCells(r) == {polylineToCells(r)[i] : i \in 1..Len(polylineToCells(r))}

\* cell p of grid c is not a corridor cell but has one within
\* CORRIDOR_CORRIDOR_GAP
CrowdsCorridor(c, p) ==
    /\ inGrid(c, p.x, p.y)
    /\ c[p.y][p.x] # Corridor
    /\ CorridorWithin(c, p, CORRIDOR_CORRIDOR_GAP)

\* C14: a route with a cell that is not itself a corridor cell but lies within
\* CORRIDOR_CORRIDOR_GAP of a corridor carved earlier is rejected (the
\* corridor check fails on that cell and the route is not carved), while a
\* route cell that coincides with a corridor cell passes the corridor check.
C14_CorridorGapOrMerge ==
    [][carveIdx' # carveIdx =>
        LET e == finalEdges[carveIdx + 1]
            s == ExitToward(rooms[e.a + 1], rooms[e.b + 1].center)
            t == ExitToward(rooms[e.b + 1], rooms[e.a + 1].center)
            rs == RouteOrder(cells, s, t)
            done == carved'[Len(carved')]
        IN /\ \A k \in 1..Len(rs) : \A p \in RouteCells(rs[k]) :
                 /\ CrowdsCorridor(cells, p) =>
                       /\ corridorTooCloseToOthers(cells, p)
                       /\ ~RoutePasses(cells, rs[k], e.a, e.b, s, t)
                 /\ (inGrid(cells, p.x, p.y) /\ cells[p.y][p.x] = Corridor) =>
                       ~corridorTooCloseToOthers(cells, p)
           /\ done.ok => \A i \in 1..Len(done.path) :
                             ~CrowdsCorridor(cells, done.path[i])]_vars

\* the edge handled last was dropped, and one of its routes stays in the grid,
\* out of every room and ROOM_CORRIDOR_GAP away from them, runs over cells of
\* an earlier corridor and then leaves it through a cell next to it
C14_Witness ==
    /\ Len(carved) >= 2
    /\ LET last == carved[Len(carved)]
           rs == RouteOrder(cells, last.start, last.end)
       IN /\ ~last.ok
          /\ \E k \in 1..Len(rs) :
                /\ \A p \in RouteCells(rs[k]) :
                      /\ inGrid(cells, p.x, p.y)
                      /\ roomIndexAt(rooms, p.x, p.y) = -1
                      /\ ~cellTooCloseToRooms(rooms, p, last.a, last.b, last.start, last.end)
                /\ \E p \in RouteCells(rs[k]) : cells[p.y][p.x] = Corridor
                /\ \E p \in RouteCells(rs[k]) : CrowdsCorridor(cells, p)

\* the 2x2 window with top-left cell (x, y) lies in grid c and each of its
\* cells is a corridor cell or a non-room cell of the set S
FilledWindow(c, S, x, y) ==
    /\ inGrid(c, x, y) /\ inGrid(c, x + 1, y + 1)
    /\ \A dy \in 0..1 : \A dx \in 0..1 :
          \/ c[y + dy][x + dx] = Corridor
          \/ (Pt(x + dx, y + dy) \in S /\ c[y + dy][x + dx] # Room)

\* carving the cells S into grid c leaves a filled 2x2 block of corridor
MakesCorridorSquare(c, S) ==
    \E y \in DOMAIN c : \E x \in DOMAIN c[y] : FilledWindow(c, S, x, y)

\* C15: the grid never contains a 2x2 window of four corridor cells, and on
\* every carve step each route whose carving would fill such a window fails
\* validation.
C15_NoCorridorSquare ==
    /\ [](~MakesCorridorSquare(cells, {}))
    /\ [][carveIdx' # carveIdx =>
            LET e == finalEdges[carveIdx + 1]
                s == ExitToward(rooms[e.a + 1], rooms[e.b + 1].center)
                t == ExitToward(rooms[e.b + 1], rooms[e.a + 1].center)
                rs == RouteOrder(cells, s, t)
            IN \A k \in 1..Len(rs) :
                  MakesCorridorSquare(cells, RouteCells(rs[k])) =>
                      ~RoutePasses(cells, rs[k], e.a, e.b, s, t)]_vars

\* the edge handled last was dropped and carving one of its routes would have
\* filled a 2x2 window, next to corridors that were carved before
C15_Witness ==
    /\ Len(carved) >= 2
    /\ \E n \in 1..Len(carved) : carved[n].ok
    /\ LET last == carved[Len(carved)]
           rs == RouteOrder(cells, last.start, last.end)
       IN /\ ~last.ok
          /\ \E k \in 1..Len(rs) : MakesCorridorSquare(cells, RouteCells(rs[k]))

\* C16: for any two distinct placed rooms, exitCellFromCenter returns the
\* first cell outside the room's rectangle on the straight walk from its
\* center toward the other center along the axis of larger displacement (x on
\* ties); the walk itself finds it (no perimeter fallback), and the cell is in
\* the grid and in no room.
C16_ExitCell ==
    \A i \in 1..Len(rooms) : \A j \in 1..Len(rooms) :
        i # j =>
            LET r == rooms[i]
                target == rooms[j].center
                dx == target.x - r.center.x
                dy == target.y - r.center.y
                primary == IF Abs(dx) >= Abs(dy) THEN "x" ELSE "y"
                x == exitCellFromCenter(cells, rooms, i - 1, target)
            IN /\ x = ExitToward(r, target)
               /\ exitWalk(cells, rooms, i - 1, r.center.x, r.center.y, primary,
                           Sign(dx), Sign(dy))[3]
               /\ inGrid(cells, x.x, x.y)
               /\ \A k \in 1..Len(rooms) : ~inRoom(rooms[k], x.x, x.y)
               /\ cells[x.y][x.x] # Room

\* the router took the exits of two rooms whose centers are as far apart in x
\* as in y, and of two rooms whose centers are further apart in y
C16_Witness ==
    /\ \E n \in 1..Len(carved) :
          LET ca == rooms[carved[n].a + 1].center
              cb == rooms[carved[n].b + 1].center
          IN /\ Abs(cb.x - ca.x) = Abs(cb.y - ca.y)
             /\ carved[n].start = ExitToward(rooms[carved[n].a + 1], cb)
             /\ carved[n].start.y = ca.y
    /\ \E n \in 1..Len(carved) :
          LET ca == rooms[carved[n].a + 1].center
              cb == rooms[carved[n].b + 1].center
          IN /\ Abs(cb.x - ca.x) < Abs(cb.y - ca.y)
             /\ carved[n].end = ExitToward(rooms[carved[n].b + 1], ca)
             /\ carved[n].end.x = cb.x

(***************************************************************************)
(* Properties of primMST, step by step                                     *)
(***************************************************************************)
\* the indices in the tree before the k-th edge of mst was added
TreeBefore(k) == {0} \cup {mst[j].a : j \in 1..(k - 1)} \cup {mst[j].b : j \in 1..(k - 1)}

\* edge e has exactly one endpoint in the set T
Crosses(e, T) == (e.a \in T) # (e.b \in T)

\* the positions in the candidate list of the edges that cross T
CrossingCandidates(T) ==
    {j \in 1..Len(roomGraph.edges) : Crosses(roomGraph.edges[j], T)}

\* C17: at a step where no candidate edge crosses the boundary of the tree,
\* the edge added joins a tree index to a non-tree index at the least distance
\* over all such pairs.
C17_FallbackNearest ==
    pc = "mst_done" =>
        \A k \in 1..Len(mst) :
            CrossingCandidates(TreeBefore(k)) = {} =>
                /\ mst[k].a \in TreeBefore(k)
                /\ mst[k].b \notin TreeBefore(k)
                /\ \A i \in TreeBefore(k) : \A j \in (0..(Len(points) - 1)) \ TreeBefore(k) :
                      dist2(points, mst[k].a, mst[k].b) <= dist2(points, i, j)

\* the positions of the crossing candidates of least weight
LightestCrossing(T) ==
    {j \in CrossingCandidates(T) :
        \A i \in CrossingCandidates(T) :
            dist2(points, roomGraph.edges[j].a, roomGraph.edges[j].b)
                <= dist2(points, roomGraph.edges[i].a, roomGraph.edges[i].b)}

\* C18: the tree starts at index 0, and at every step where some candidate
\* edge has exactly one endpoint in the tree the edge added is the candidate
\* of least weight among those, the first in candidate-list order when
\* several have that weight.
C18_PrimSelection ==
    pc = "mst_done" =>
        \A k \in 1..Len(mst) :
            CrossingCandidates(TreeBefore(k)) # {} =>
                LET first == CHOOSE j \in LightestCrossing(TreeBefore(k)) :
                                 \A i \in LightestCrossing(TreeBefore(k)) : j <= i
                IN mst[k] = roomGraph.edges[first]

\* a step where two different candidate edges of the same least weight cross
\* the boundary of the tree, and the earlier one in the list was added
C18_Witness ==
    /\ pc = "mst_done"
    /\ \E k \in 2..Len(mst) :
          \E i, j \in LightestCrossing(TreeBefore(k)) :
              /\ i < j
              /\ {roomGraph.edges[i].a, roomGraph.edges[i].b}
                     # {roomGraph.edges[j].a, roomGraph.edges[j].b}
              /\ mst[k] = roomGraph.edges[i]
              /\ \A h \in LightestCrossing(TreeBefore(k)) : i <= h

(***************************************************************************)
(* Properties of loop augmentation, step by step                           *)
(***************************************************************************)
\* edge e joins the same two points as an edge of the MST
JoinsLikeMst(e) == \E j \in 1..Len(mst) : {mst[j].a, mst[j].b} = {e.a, e.b}

\* C19: during and after augmentation the final edge list starts with the
\* whole MST and the degree counters count the edges of the final list; each
\* iteration examines the next candidate of the list and either leaves list
\* and counters alone or appends the candidate, which then is not an MST
\* edge and has both counters <= MAX_ALLOWED_CONNECTIONS at that moment, and
\* adds one to both counters before the next candidate is examined.
C19_AugmentationRule ==
    /\ [](pc \in {"augment", "carve"} =>
            /\ Len(finalEdges) >= Len(mst)
            /\ SubSeq(finalEdges, 1, Len(mst)) = mst
            /\ adjacency = [j \in 1..Len(points) |-> degreeIn(finalEdges, j - 1)])
    /\ [][augIdx' # augIdx =>
            LET e == roomGraph.edges[augIdx + 1]
            IN /\ augIdx' = augIdx + 1
               /\ \/ /\ finalEdges' = finalEdges
                     /\ adjacency' = adjacency
                  \/ /\ finalEdges' = Append(finalEdges, e)
                     /\ ~JoinsLikeMst(e)
                     /\ adjacency[e.a + 1] <= MAX_ALLOWED_CONNECTIONS
                     /\ adjacency[e.b + 1] <= MAX_ALLOWED_CONNECTIONS
                     /\ adjacency' = [j \in 1..Len(points) |->
                                        adjacency[j]
                                        + (IF j = e.a + 1 THEN 1 ELSE 0)
                                        + (IF j = e.b + 1 THEN 1 ELSE 0)]]_vars

\* the candidate about to be examined is not an MST edge and will be refused
\* whatever the draw, at an endpoint whose MST degree alone would have let it
\* in: an extra edge accepted earlier raised the counter
C19_Witness ==
    /\ pc = "augment"
    /\ augIdx < Len(roomGraph.edges)
    /\ Len(finalEdges) > Len(mst)
    /\ LET e == roomGraph.edges[augIdx + 1]
       IN /\ ~JoinsLikeMst(e)
          /\ \/ /\ adjacency[e.a + 1] > MAX_ALLOWED_CONNECTIONS
                /\ degreeIn(mst, e.a) <= MAX_ALLOWED_CONNECTIONS
             \/ /\ adjacency[e.b + 1] > MAX_ALLOWED_CONNECTIONS
                /\ degreeIn(mst, e.b) <= MAX_ALLOWED_CONNECTIONS
          /\ degreeIn(mst, e.a) <= MAX_ALLOWED_CONNECTIONS
          /\ degreeIn(mst, e.b) <= MAX_ALLOWED_CONNECTIONS

(***************************************************************************)
(* Shape of the carved corridors                                           *)
(***************************************************************************)
\* consecutive cells p, q are the same cell or differ by 1 on exactly one axis
StepOrStay(p, q) == Abs(p.x - q.x) + Abs(p.y - q.y) <= 1

\* the positions of path where the walk moves
Moves(path) == {i \in 1..(Len(path) - 1) : path[i] # path[i + 1]}

\* the positions where the walk moves and its next move has another direction
Turns(path) ==
    {i \in Moves(path) :
        \E j \in Moves(path) :
            /\ j > i
            /\ \A h \in Moves(path) : h > i => j <= h
            /\ <<path[j + 1].x - path[j].x, path[j + 1].y - path[j].y>>
                   # <<path[i + 1].x - path[i].x, path[i + 1].y - path[i].y>>}

\* C20: every corridor carved for an edge (a, b) is a cell sequence from a's
\* exit cell to b's exit cell, inside the grid, whose consecutive cells are
\* identical or orthogonally adjacent, made of at most 3 straight segments,
\* and all of its cells are corridor cells of the grid.
C20_CorridorIsPolyline ==
    \A n \in 1..Len(carved) :
        carved[n].ok =>
            LET path == carved[n].path
                ra == rooms[carved[n].a + 1]
                rb == rooms[carved[n].b + 1]
            IN /\ Len(path) >= 2
               /\ path[1] = ExitToward(ra, rb.center)
               /\ path[Len(path)] = ExitToward(rb, ra.center)
               /\ \A i \in 1..Len(path) :
                     /\ inGrid(cells, path[i].x, path[i].y)
                     /\ cells[path[i].y][path[i].x] = Corridor
               /\ \A i \in 1..(Len(path) - 1) : StepOrStay(path[i], path[i + 1])
               /\ Cardinality(Turns(path)) <= 2

\* a corridor of three segments was carved: two turns, and a vertex cell that
\* appears twice in a row
C20_Witness ==
    \E n \in 1..Len(carved) :
        /\ carved[n].ok
        /\ Cardinality(Turns(carved[n].path)) = 2
        /\ \E i \in 1..(Len(carved[n].path) - 1) :
              carved[n].path[i] = carved[n].path[i + 1]

(***************************************************************************)
(* A carved path and the corridors carved before it                        *)
(***************************************************************************)
\* the Chebyshev distance between two cells
CellChebyshev(p, q) == Max(Abs(p.x - q.x), Abs(p.y - q.y))

\* C21: the path carved by a carve step either runs only over cells that
\* were corridor before the step, or has no cell that was corridor and no
\* cell within Chebyshev distance 1 of a cell that was corridor: it never
\* partly overlaps, branches off or touches an earlier corridor.
C21_AllOrNothingOverlap ==
    [][carveIdx' # carveIdx =>
        LET done == carved'[Len(carved')]
            old == {Pt(x, y) : x \in 0..(Cols(cells) - 1), y \in 0..(Rows(cells) - 1)}
                   \cap {p \in [x : 0..(Cols(cells) - 1), y : 0..(Rows(cells) - 1)] :
                            cells[p.y][p.x] = Corridor}
            new == {done.path[i] : i \in 1..Len(done.path)}
        IN done.ok =>
              \/ new \subseteq old
              \/ \A p \in new : \A q \in old : CellChebyshev(p, q) > 1]_vars

\* two corridors were carved one after the other and no cell of the later one
\* is on or next to a cell of the earlier one
C21_Witness ==
    \E m \in 1..Len(carved) : \E n \in 1..Len(carved) :
        /\ m < n
        /\ carved[m].ok
        /\ carved[n].ok
        /\ \A i \in 1..Len(carved[m].path) : \A j \in 1..Len(carved[n].path) :
              CellChebyshev(carved[m].path[i], carved[n].path[j]) > 1

(***************************************************************************)
(* primMST always returns a spanning tree                                  *)
(***************************************************************************)
\* edge e joins the same two points as an edge of the candidate list
JoinsLikeCandidate(e) ==
    \E j \in 1..Len(roomGraph.edges) :
        {roomGraph.edges[j].a, roomGraph.edges[j].b} = {e.a, e.b}

\* C22: for 0 or 1 points primMST returns no edges; for N >= 2 points and any
\* candidate list it returns exactly N - 1 edges, each joining exactly one
\* new point to the tree grown from index 0 by the edges before it, so that
\* the edges reach all N points.
C22_AlwaysSpanningTree ==
    pc = "mst_done" =>
        IF Len(points) <= 1
        THEN mst = <<>>
        ELSE /\ Len(mst) = Len(points) - 1
             /\ \A k \in 1..Len(mst) :
                   /\ mst[k].a \in 0..(Len(points) - 1)
                   /\ mst[k].b \in 0..(Len(points) - 1)
                   /\ Crosses(mst[k], TreeBefore(k))
             /\ TreeBefore(Len(mst) + 1) = 0..(Len(points) - 1)

\* a tree over four points built from a candidate list that is not empty and
\* does not connect them: one of its edges is no candidate
C22_Witness ==
    /\ pc = "mst_done"
    /\ Len(points) = MST_MAX_POINTS
    /\ Len(mst) = Len(points) - 1
    /\ Len(roomGraph.edges) > 0
    /\ \E k \in 1..Len(mst) : JoinsLikeCandidate(mst[k])
    /\ \E k \in 1..Len(mst) : ~JoinsLikeCandidate(mst[k])

====
